---- MODULE Spec2Model ----
(***************************************************************************)
(* Workout draft lifecycle and trainer-chat sessions of the fitness        *)
(* backend (src/app/workouts, src/app/trainer_chat, src/app/attendance).   *)
(*                                                                         *)
(* The persistence store is four tables: workouts, trainer_chat_sessions,  *)
(* trainer_chat_messages and users.  Every request handler is a task that  *)
(* suspends at each awaited store call, so a handler is one action per     *)
(* store call and two tasks interleave at those points.  A call to the     *)
(* completion service touches no table; it is folded into the store step   *)
(* that precedes it (its outcome is chosen there).                         *)
(***************************************************************************)
EXTENDS Integers, Sequences, FiniteSets, TLC

VARIABLES workouts, sessions, messages, users, settings, tasks, resp, nOps

vars == <<workouts, sessions, messages, users, settings, tasks, resp, nOps>>

(* ---------------------------- bounds ----------------------------------- *)
MaxRows == 3
MaxSessions == 1
MaxConc == 2
MaxOps == 2
MaxName == 2
NumEx == 2
MaxDate == 2

WIds == 1..MaxRows
SIds == 1..MaxSessions
Slots == 1..MaxConc
Names == 1..MaxName
Dates == 1..MaxDate

(* ---------------------------- values ----------------------------------- *)
\* An optional value is a sequence of length 0 (None) or 1.
Null == << >>

\* WorkoutStructured.exercises by name; a details value is never empty.
Details == [1..NumEx -> Names]

Caller == "u1"
Other == "u2"

\* What the completion service returns for a workout generation after
\* normalization: exercises and the clamped calories_burned (or None).
GenResults == [details : Details, calories : {Null, <<300>>}]

\* A muscle-group label is the sequence of the group names that ", ".join
\* puts into one string; the empty label is None (or the empty string).
\* generation_context of a row that was written without one.
NoCtx ==
    [muscle_groups |-> Null, target_muscle_group |-> Null,
     wellbeing_reason |-> Null, mode |-> "none"]

\* settings: openai_api_key is the credential, or the empty string.
Settings == [openai_api_key : {"", "sk"}]

\* The settings of a deployment that has its credential.
SeedSettings == [openai_api_key |-> "sk"]

AbsentRow ==
    [user |-> "none", status |-> "absent", details |-> Null, date |-> 0,
     calories |-> Null, workout_type |-> "none", generation_context |-> NoCtx]

AbsentSession ==
    [user |-> "none", status |-> "absent", workout_id |-> 0,
     original |-> Null, updated |-> Null]

\* last is the label a task is about to store as last_muscle_group, target
\* the one it stores as target_muscle_group, kind the branch it took.
IdleTask ==
    [op |-> "idle", pc |-> "idle", wid |-> 0, sid |-> 0, idx |-> 0,
     details |-> Null, calories |-> Null, date |-> 0, last |-> Null,
     target |-> Null, kind |-> "none", workout_type |-> "none",
     generation_context |-> NoCtx]

NoResp ==
    [op |-> "none", pc |-> "none", ret |-> "none", code |-> 0, wid |-> 0,
     sid |-> 0]

(* ------------------------ persistence store ---------------------------- *)
\* Each handler names the row it reads and writes by a filter on id, user_id
\* and status; w is the row with the id, u the calling user.
\* The delete filter without its status condition.
DeleteDraftFilterAnyStatus(w, u) == w.user = u /\ w.status \in {"draft", "completed"}

\* delete_workout_draft: {id, user_id, status: eq.draft} of get_one and delete.
DeleteDraftFilter(w, u) == w.user = u /\ w.status = "draft"

\* The replace filter without its status condition.
ReplaceDraftFilterAnyStatus(w, u) == w.user = u /\ w.status \in {"draft", "completed"}

\* replace_workout_draft: the filter of get_one and of update.
ReplaceDraftFilter(w, u) == w.user = u /\ w.status = "draft"

\* replace_workout_exercise: the filter of get_one and of update.
ReplaceExerciseFilter(w, u) == w.user = u /\ w.status = "draft"

\* The complete filter without its user_id condition.
CompleteDraftFilterAnyUser(w, u) == w.status = "draft"

\* complete_workout_draft: the filter of get_one and of update.
CompleteDraftFilter(w, u) == w.user = u /\ w.status = "draft"

\* The finish filter without its status condition.
FinishUpdateFilterAnyStatus(w, u) == w.user = u /\ w.status \in {"draft", "completed"}

\* finish_trainer_chat: the filter of the update of the workout.
FinishUpdateFilter(w, u) == w.user = u /\ w.status = "draft"

\* revert_trainer_chat: the filter of the update of the workout.
RevertUpdateFilter(w, u) == w.user = u /\ w.status = "draft"

\* The clone filter without its status condition.
CompletedFilterAnyStatus(w, u) == w.user = u /\ w.status \in {"draft", "completed"}

\* clone_completed_workout_to_draft: {id, user_id, status: eq.completed}
CompletedFilter(w, u) == w.user = u /\ w.status = "completed"

\* get_workout_by_id: {id, user_id}, any status.
OwnedFilter(w, u) == w.user = u /\ w.status \in {"draft", "completed"}

\* get_session: {id, user_id}
SessionFilter(ss, u) == ss.user = u /\ ss.status # "absent"

\* uuid4(): an id no row has ever had.
FreshWids == {i \in WIds : workouts[i].status = "absent"}
NextWid == CHOOSE i \in FreshWids : \A j \in FreshWids : i <= j

FreshSids == {i \in SIds : sessions[i].status = "absent"}
NextSid == CHOOSE i \in FreshSids : \A j \in FreshSids : i <= j

Inserting(ops) == {s \in Slots : tasks[s].op \in ops}

(* --------------------------- task plumbing ----------------------------- *)
\* A request starts in the lowest idle slot while the budget lasts.
CanStart(s) ==
    /\ nOps < MaxOps
    /\ tasks[s].op = "idle"
    /\ \A t \in Slots : t < s => tasks[t].op # "idle"

\* The answer the client gets: what the service returned ("ok", "none" for
\* None, "raise" for an exception), the step it returned from and the HTTP
\* status the router maps it to.
Respond(op, pc, ret, code, wid, sid) ==
    resp' = [op |-> op, pc |-> pc, ret |-> ret, code |-> code, wid |-> wid,
             sid |-> sid]

\* The request returns straight from its first step.
ReturnAtStart(op, ret, code, wid, sid) ==
    /\ Respond(op, "start", ret, code, wid, sid)
    /\ nOps' = nOps + 1
    /\ UNCHANGED tasks

Suspend(s, t) ==
    /\ tasks' = [tasks EXCEPT ![s] = t]
    /\ nOps' = nOps + 1
    /\ UNCHANGED resp

Resume(s, t) ==
    /\ tasks' = [tasks EXCEPT ![s] = t]
    /\ UNCHANGED <<resp, nOps, settings>>

Finish(s, ret, code) ==
    /\ Respond(tasks[s].op, tasks[s].pc, ret, code, tasks[s].wid, tasks[s].sid)
    /\ tasks' = [tasks EXCEPT ![s] = IdleTask]
    /\ UNCHANGED nOps

(* ------------------------------ payloads ------------------------------- *)
\* replace_workout_draft: update_data; calories_burned only when not None,
\* generation_context (the one read, with the new target) only on the random
\* AI and wellbeing branches.
ReplaceDraftUpdate(w, t) ==
    [w EXCEPT !.details = t.details,
              !.calories = IF t.calories # Null THEN t.calories ELSE @,
              !.generation_context =
                  IF t.kind \in {"random_ai", "wellbeing"}
                    THEN [t.generation_context EXCEPT
                             !.target_muscle_group = t.target]
                    ELSE @]

\* complete_workout_draft: update_data.
CompleteDraftUpdate(w, t) ==
    [w EXCEPT !.status = "completed", !.date = t.date, !.details = t.details,
              !.calories = IF t.calories # Null THEN t.calories ELSE @]

\* A finish payload that also completes the workout, as complete_draft does.
FinishUpdateCompleting(w, t) ==
    [w EXCEPT !.status = "completed", !.details = t.details,
              !.calories = IF t.calories # Null THEN t.calories ELSE @]

\* finish_trainer_chat: update_payload of the workout.
FinishUpdate(w, t) ==
    [w EXCEPT !.details = t.details,
              !.calories = IF t.calories # Null THEN t.calories ELSE @]

\* finish_trainer_chat: the update of the session.
FinishSessionUpdate(ss, t) ==
    [ss EXCEPT !.status = "finished", !.updated = t.details]

\* A revert that writes updated_workout_details instead of the snapshot.
RevertUpdateFromUpdated(w, ss) == [w EXCEPT !.details = ss.updated]

\* revert_trainer_chat: the update of the workout.
RevertUpdate(w, ss) == [w EXCEPT !.details = ss.original]

\* revert_trainer_chat: the update of the session.
RevertSessionUpdate(ss) == [ss EXCEPT !.status = "reverted"]

\* create_session without its status check.
CreateSessionAllowedAnyStatus(w, u) == OwnedFilter(w, u)

\* create_session: the workout must be the caller's and a draft.
CreateSessionAllowed(w, u) == OwnedFilter(w, u) /\ w.status = "draft"

\* create_session: session_payload.
SessionPayload(u, t) ==
    [user |-> u, status |-> "active", workout_id |-> t.wid,
     original |-> t.details, updated |-> Null]

\* finish_trainer_chat: the workout read must be the caller's and a draft.
FinishAllowed(w, u) == OwnedFilter(w, u) /\ w.status = "draft"

(* ------------------------- muscle-group rotation ----------------------- *)
\* MUSCLE_GROUPS_COMBINED: the standard catalogue, six labels, some of them
\* combinations, "back" at index 2.
MUSCLE_GROUPS_COMBINED ==
    << <<"chest">>, <<"legs">>, <<"back">>, <<"shoulders">>, <<"arms">>,
       <<"chest", "back">> >>

\* PRO_MUSCLE_SETS_MEN, PRO_MUSCLE_SETS_WOMEN: the paired sets of the advanced
\* rotation, one list for each gender presentation.
PRO_MUSCLE_SETS_MEN ==
    << <<"chest", "arms">>, <<"back", "shoulders">>, <<"legs", "abs">> >>

PRO_MUSCLE_SETS_WOMEN ==
    << <<"legs", "glutes">>, <<"back", "arms">>, <<"chest", "shoulders">> >>

\* _is_female_gender: the value, stripped and lowered, starts with the
\* Cyrillic letter of "female"; None and the empty string do not.
IsFemaleGender(value) == value = "f"

\* enumerate(seq) ... break: the first of the indices whose element matches,
\* 0 if none.
FirstIndex(hits) ==
    IF hits = {} THEN 0 ELSE CHOOSE i \in hits : \A j \in hits : i <= j

\* The pro rotation matching by the joined set only.
GetNextProMuscleSetExactOnly(user) ==
    LET sets == IF IsFemaleGender(user.gender) THEN PRO_MUSCLE_SETS_WOMEN
                ELSE PRO_MUSCLE_SETS_MEN
        last == user.last_muscle_group
        Match(st) == last = st
        idx == IF last = Null THEN 0 ELSE FirstIndex({i \in 1..Len(sets) : Match(sets[i])}) IN
    sets[(idx % Len(sets)) + 1]

\* _get_next_pro_muscle_set: idx is the first set with last == joined or
\* last in s (-1 if none), the result sets[(idx + 1) % len(sets)]; indices
\* here start at 1.
GetNextProMuscleSet(user) ==
    LET sets == IF IsFemaleGender(user.gender) THEN PRO_MUSCLE_SETS_WOMEN
                ELSE PRO_MUSCLE_SETS_MEN
        last == user.last_muscle_group
        Match(st) == \/ last = st
                     \/ Len(last) = 1 /\ \E k \in 1..Len(st) : st[k] = last[1]
        idx == IF last = Null THEN 0 ELSE FirstIndex({i \in 1..Len(sets) : Match(sets[i])}) IN
    sets[(idx % Len(sets)) + 1]

\* The standard rotation without the modulo: it stays on the last entry.
GetNextMuscleGroupForUserNoWrap(user) ==
    IF user.is_pro THEN GetNextProMuscleSet(user)
    ELSE LET rotation == MUSCLE_GROUPS_COMBINED
             last == user.last_muscle_group
             Match(g) == g = last
             current == FirstIndex({i \in 1..Len(rotation) : Match(rotation[i])}) IN
         IF last = Null \/ current = 0 THEN rotation[1]
         ELSE IF current = Len(rotation) THEN rotation[current]
         ELSE rotation[current + 1]

\* get_next_muscle_group_for_user: the joined next set of a pro user, else
\* rotation[(rotation.index(last) + 1) % len(rotation)], and rotation[0] for
\* a last group that is None, empty or not in the rotation.
GetNextMuscleGroupForUser(user) ==
    IF user.is_pro THEN GetNextProMuscleSet(user)
    ELSE LET rotation == MUSCLE_GROUPS_COMBINED
             last == user.last_muscle_group
             Match(g) == g = last
             current == FirstIndex({i \in 1..Len(rotation) : Match(rotation[i])}) IN
         IF last = Null \/ current = 0 THEN rotation[1]
         ELSE rotation[(current % Len(rotation)) + 1]

\* _update_last_muscle_group: update of users filtered by id.
UpdateLastMuscleGroup(user, muscle_group) ==
    [user EXCEPT !.last_muscle_group = muscle_group]

(* ------------------------- workouts/service.py ------------------------- *)
\* What WorkoutDraftCreateRequest carries besides its date (muscle_group is
\* muscle_groups of one name): a request without groups or reason, one that
\* selects a group, a wellbeing request, and one that states a reason outside
\* wellbeing mode.
DraftRequests ==
    {d \in [muscle_groups : {Null, <<"legs">>},
            wellbeing_reason : {Null, <<"tired">>},
            mode : {"standard", "wellbeing"}] :
        /\ d.muscle_groups # Null => d.wellbeing_reason = Null
        /\ d.mode = "wellbeing" => d.wellbeing_reason # Null}

\* The muscle_groups a wellbeing generation may name (one to four names).
WellbeingGroups == {<<"abs", "arms">>, <<"back">>}

\* How a generation fails: by invalid output (unparseable after the repair, no
\* valid exercise: a RuntimeError) or by an error of the provider (an
\* exception of the openai client).
GenFailures == {"invalid", "provider"}

\* if not settings.openai_api_key
KeyMissing == settings.openai_api_key = ""

\* The failures and the results a generation can end with: without the
\* credential it raises RuntimeError("OpenAI API key is missing") at once.
GenFailuresNow == IF KeyMissing THEN {"config"} ELSE GenFailures

GenResultsNow == IF KeyMissing THEN {} ELSE GenResults

\* create_draft, replace_draft, replace_exercise: RuntimeError is answered
\* 502; no handler catches the provider's exception, which is answered 500.
FailureCode(f) == IF f = "provider" THEN 500 ELSE 502

\* create_workout_draft: is_wellbeing_mode.
IsWellbeingMode(data) == data.mode = "wellbeing" /\ data.wellbeing_reason # Null

\* _draft_workout_type
DraftWorkoutType(wellbeing_reason, selected_muscle_groups) ==
    IF wellbeing_reason # Null THEN "wellbeing"
    ELSE IF selected_muscle_groups # Null THEN "personal"
    ELSE "ai"

\* A create_workout_draft that stores last_muscle_group after the generation
\* in every mode.
UpdatesLastBeforeGenerationNever(data) == FALSE

\* create_workout_draft: last_muscle_group is stored before the generation
\* unless the request is in wellbeing mode.
UpdatesLastBeforeGeneration(data) == ~IsWellbeingMode(data)

\* create_workout_draft up to the generation: used_muscle_group is the joined
\* selection or the next group of the rotation; outside wellbeing mode the
\* first selected name, or the used group, is stored as last_muscle_group
\* first.  Then the generation fails or returns; a wellbeing generation names
\* the groups itself.  estimated_calories is not a key of the normalized
\* result, so calories_burned stays None.
CreateDraftGenerate(s, data, date) ==
    /\ CanStart(s)
    /\ Cardinality(FreshWids) > Cardinality(Inserting({"create_draft", "clone"}))
    /\ LET selected == data.muscle_groups
           used == IF selected # Null THEN selected
                   ELSE GetNextMuscleGroupForUser(users)
           first == IF selected # Null THEN <<selected[1]>> ELSE used
           before == UpdatesLastBeforeGeneration(data) IN
       /\ users' = IF before THEN UpdateLastMuscleGroup(users, first) ELSE users
       /\ \/ \E f \in GenFailuresNow :
                ReturnAtStart("create_draft", "raise", FailureCode(f), 0, 0)
          \/ \E g \in GenResultsNow :
             \E mg \in IF IsWellbeingMode(data) THEN WellbeingGroups ELSE {used} :
                Suspend(s, [IdleTask EXCEPT
                    !.op = "create_draft",
                    !.pc = IF before THEN "insert" ELSE "rotate",
                    !.details = g.details, !.date = date,
                    !.last = IF IsWellbeingMode(data) THEN <<mg[1]>> ELSE first,
                    !.target = mg,
                    !.workout_type = DraftWorkoutType(data.wellbeing_reason, selected),
                    !.generation_context =
                        [muscle_groups |-> selected, target_muscle_group |-> mg,
                         wellbeing_reason |-> data.wellbeing_reason,
                         mode |-> data.mode]])
    /\ UNCHANGED <<workouts, sessions, messages, settings>>

\* create_workout_draft in wellbeing mode: the first generated group is
\* stored as last_muscle_group after the generation.
CreateDraftUpdateLast(s) ==
    /\ tasks[s].op = "create_draft" /\ tasks[s].pc = "rotate"
    /\ users' = UpdateLastMuscleGroup(users, tasks[s].last)
    /\ Resume(s, [tasks[s] EXCEPT !.pc = "insert"])
    /\ UNCHANGED <<workouts, sessions, messages, settings>>

\* create_workout_draft: supabase_client.insert("workouts", workout_data).
CreateDraftInsert(s) ==
    /\ tasks[s].op = "create_draft" /\ tasks[s].pc = "insert"
    /\ workouts' = [workouts EXCEPT ![NextWid] =
            [user |-> Caller, status |-> "draft", details |-> tasks[s].details,
             date |-> tasks[s].date, calories |-> tasks[s].calories,
             workout_type |-> tasks[s].workout_type,
             generation_context |-> tasks[s].generation_context]]
    /\ Respond("create_draft", "insert", "ok", 201, NextWid, 0)
    /\ tasks' = [tasks EXCEPT ![s] = IdleTask]
    /\ UNCHANGED <<sessions, messages, users, nOps, settings>>

\* delete_workout_draft: the existence check.  cancel_draft answers 204
\* whatever the service returns.
DeleteDraftRead(s, wid) ==
    /\ CanStart(s)
    /\ IF DeleteDraftFilter(workouts[wid], Caller)
         THEN Suspend(s, [IdleTask EXCEPT !.op = "delete_draft", !.pc = "write",
                                          !.wid = wid])
         ELSE ReturnAtStart("delete_draft", "none", 204, wid, 0)
    /\ UNCHANGED <<workouts, sessions, messages, users, settings>>

\* delete_workout_draft: supabase_client.delete with the draft filter.
DeleteDraftWrite(s) ==
    /\ tasks[s].op = "delete_draft" /\ tasks[s].pc = "write"
    /\ LET wid == tasks[s].wid IN
         workouts' = IF DeleteDraftFilter(workouts[wid], Caller)
                       THEN [workouts EXCEPT ![wid] =
                               [AbsentRow EXCEPT !.status = "deleted"]]
                       ELSE workouts
    /\ Finish(s, "ok", 204)
    /\ UNCHANGED <<sessions, messages, users, settings>>

\* replace_workout_draft: is_wellbeing_mode, from the generation_context read.
ReplaceIsWellbeingMode(w) ==
    /\ w.generation_context.mode = "wellbeing"
    /\ w.generation_context.wellbeing_reason # Null

\* is_random_ai testing the wellbeing reason only.
IsRandomAiAnySelection(w) == w.generation_context.wellbeing_reason = Null

\* replace_workout_draft: is_random_ai.
IsRandomAi(w) ==
    /\ w.workout_type = "ai"
    /\ w.generation_context.muscle_groups = Null
    /\ w.generation_context.wellbeing_reason = Null

\* replace_workout_draft: the branch taken for the row read.
ReplaceKind(w) ==
    IF ReplaceIsWellbeingMode(w) THEN "wellbeing"
    ELSE IF IsRandomAi(w) THEN "random_ai"
    ELSE "same"

\* replace_workout_draft, last branch: the recorded target, else the joined
\* selection.
RecordedTarget(ctx) ==
    IF ctx.target_muscle_group # Null THEN ctx.target_muscle_group
    ELSE ctx.muscle_groups

\* replace_workout_draft: get_one with the draft filter and the branch.  On
\* the random AI branch the next store call is the update of
\* last_muscle_group with the next group of the rotation, computed from the
\* user as the request read it; on the other branches the generation comes
\* first.
ReplaceDraftRead(s, wid) ==
    /\ CanStart(s)
    /\ LET w == workouts[wid]
           kind == ReplaceKind(w)
           t == [IdleTask EXCEPT !.op = "replace_draft", !.wid = wid,
                                 !.kind = kind,
                                 !.generation_context = w.generation_context] IN
       IF ~ReplaceDraftFilter(w, Caller)
         THEN ReturnAtStart("replace_draft", "none", 404, wid, 0)
         ELSE IF kind = "random_ai"
           THEN LET used == GetNextMuscleGroupForUser(users) IN
                Suspend(s, [t EXCEPT !.pc = "rotate", !.last = used,
                                     !.target = used])
           ELSE \/ \E f \in GenFailuresNow :
                     ReturnAtStart("replace_draft", "raise", FailureCode(f), wid, 0)
                \/ \E g \in GenResultsNow :
                   \E mg \in IF kind = "wellbeing" THEN WellbeingGroups
                              ELSE {RecordedTarget(w.generation_context)} :
                     Suspend(s, [t EXCEPT
                         !.pc = IF kind = "wellbeing" THEN "rotate" ELSE "write",
                         !.details = g.details, !.calories = g.calories,
                         !.last = IF kind = "wellbeing" THEN <<mg[1]>> ELSE Null,
                         !.target = mg])
    /\ UNCHANGED <<workouts, sessions, messages, users, settings>>

\* replace_workout_draft: _update_last_muscle_group.  On the random AI branch
\* the generation follows it and may fail; on the wellbeing branch the
\* generation is done.
ReplaceDraftUpdateLast(s) ==
    /\ tasks[s].op = "replace_draft" /\ tasks[s].pc = "rotate"
    /\ users' = UpdateLastMuscleGroup(users, tasks[s].last)
    /\ IF tasks[s].kind = "random_ai"
         THEN \/ \E f \in GenFailuresNow : Finish(s, "raise", FailureCode(f))
              \/ \E g \in GenResultsNow :
                   Resume(s, [tasks[s] EXCEPT !.pc = "write",
                                  !.details = g.details, !.calories = g.calories])
         ELSE Resume(s, [tasks[s] EXCEPT !.pc = "write"])
    /\ UNCHANGED <<workouts, sessions, messages, settings>>

\* replace_workout_draft: supabase_client.update with the draft filter;
\* calories_burned is part of the update only when it is not None.
ReplaceDraftWrite(s) ==
    /\ tasks[s].op = "replace_draft" /\ tasks[s].pc = "write"
    /\ LET wid == tasks[s].wid
           w == workouts[wid] IN
         IF ReplaceDraftFilter(w, Caller)
           THEN /\ workouts' = [workouts EXCEPT ![wid] = ReplaceDraftUpdate(w, tasks[s])]
                /\ Finish(s, "ok", 200)
           ELSE /\ UNCHANGED workouts
                /\ Finish(s, "none", 404)
    /\ UNCHANGED <<sessions, messages, users, settings>>

\* replace_workout_exercise: get_one with the draft filter, the index check
\* against the exercises read, then generate_workout_exercise.
ReplaceExerciseRead(s, wid, index) ==
    /\ CanStart(s)
    /\ LET w == workouts[wid] IN
         IF \/ ~ReplaceExerciseFilter(w, Caller)
            \/ w.details = Null
            \/ index < 0
            \/ index >= Len(w.details)
           THEN ReturnAtStart("replace_exercise", "none", 404, wid, 0)
           ELSE \/ \E f \in GenFailuresNow :
                     ReturnAtStart("replace_exercise", "raise", FailureCode(f), wid, 0)
                \/ \E n \in IF KeyMissing THEN {} ELSE Names :
                     Suspend(s, [IdleTask EXCEPT !.op = "replace_exercise",
                                     !.pc = "write", !.wid = wid, !.idx = index,
                                     !.details = [w.details EXCEPT ![index + 1] = n]])
    /\ UNCHANGED <<workouts, sessions, messages, users, settings>>

\* replace_workout_exercise: the update writes the exercises read at the
\* start with slot index replaced.
ReplaceExerciseWrite(s) ==
    /\ tasks[s].op = "replace_exercise" /\ tasks[s].pc = "write"
    /\ LET wid == tasks[s].wid
           w == workouts[wid] IN
         IF ReplaceExerciseFilter(w, Caller)
           THEN /\ workouts' = [workouts EXCEPT ![wid] =
                      [w EXCEPT !.details = tasks[s].details]]
                /\ Finish(s, "ok", 200)
           ELSE /\ UNCHANGED workouts
                /\ Finish(s, "none", 404)
    /\ UNCHANGED <<sessions, messages, users, settings>>

\* complete_workout_draft: get_one with the draft filter.
CompleteDraftRead(s, wid, data) ==
    /\ CanStart(s)
    /\ IF CompleteDraftFilter(workouts[wid], Caller)
         THEN Suspend(s, [IdleTask EXCEPT !.op = "complete_draft", !.pc = "write",
                              !.wid = wid, !.details = data.details,
                              !.date = data.date, !.calories = data.calories])
         ELSE ReturnAtStart("complete_draft", "none", 404, wid, 0)
    /\ UNCHANGED <<workouts, sessions, messages, users, settings>>

\* complete_workout_draft: supabase_client.update with the draft filter.
CompleteDraftWrite(s) ==
    /\ tasks[s].op = "complete_draft" /\ tasks[s].pc = "write"
    /\ LET wid == tasks[s].wid
           w == workouts[wid] IN
         IF CompleteDraftFilter(w, Caller)
           THEN /\ workouts' = [workouts EXCEPT ![wid] = CompleteDraftUpdate(w, tasks[s])]
                /\ Finish(s, "ok", 200)
           ELSE /\ UNCHANGED workouts
                /\ Finish(s, "none", 404)
    /\ UNCHANGED <<sessions, messages, users, settings>>

\* clone_completed_workout_to_draft: the keys of the source's
\* generation_context replace those of the clone's own (mode "clone_last");
\* the target is the source's when it has one.  (A source without a target
\* gets one inferred from the muscle_groups of its details, which the details
\* here do not carry; every row here that has a context has a target.)
CloneContext(source) ==
    IF source.generation_context = NoCtx
      THEN [NoCtx EXCEPT !.mode = "clone_last"]
      ELSE source.generation_context

\* clone_completed_workout_to_draft: source.get("workout_type") or "ai".
CloneWorkoutType(source) ==
    IF source.workout_type = "none" THEN "ai" ELSE source.workout_type

\* clone_completed_workout_to_draft: get_one with the completed filter.
CloneRead(s, wid, date) ==
    /\ CanStart(s)
    /\ Cardinality(FreshWids) > Cardinality(Inserting({"create_draft", "clone"}))
    /\ LET w == workouts[wid] IN
         IF CompletedFilter(w, Caller)
           THEN Suspend(s, [IdleTask EXCEPT !.op = "clone", !.pc = "insert",
                                !.wid = wid, !.details = w.details,
                                !.calories = w.calories, !.date = date,
                                !.workout_type = CloneWorkoutType(w),
                                !.generation_context = CloneContext(w)])
           ELSE ReturnAtStart("clone", "none", 404, wid, 0)
    /\ UNCHANGED <<workouts, sessions, messages, users, settings>>

\* clone_completed_workout_to_draft: the insert of the copy.
CloneInsert(s) ==
    /\ tasks[s].op = "clone" /\ tasks[s].pc = "insert"
    /\ workouts' = [workouts EXCEPT ![NextWid] =
            [user |-> Caller, status |-> "draft", details |-> tasks[s].details,
             date |-> tasks[s].date, calories |-> tasks[s].calories,
             workout_type |-> tasks[s].workout_type,
             generation_context |-> tasks[s].generation_context]]
    /\ Respond("clone", "insert", "ok", 201, NextWid, 0)
    /\ tasks' = [tasks EXCEPT ![s] = IdleTask]
    /\ UNCHANGED <<sessions, messages, nOps, users, settings>>

(* ----------------------- trainer_chat/service.py ----------------------- *)
\* The session id is generated by the store and reaches the client only in
\* the response of create_trainer_chat_session, so no request names a
\* session whose creation is still running.
Known(sid) == \A t \in Slots : ~(tasks[t].op = "create_session" /\ tasks[t].sid = sid)

\* create_session: get_workout_by_id and the status check.  The router
\* answers 500 when the service returns no session.
CreateSessionRead(s, wid) ==
    /\ CanStart(s)
    /\ Cardinality(FreshSids) > Cardinality(Inserting({"create_session"}))
    /\ LET w == workouts[wid] IN
         IF CreateSessionAllowed(w, Caller)
           THEN Suspend(s, [IdleTask EXCEPT !.op = "create_session",
                                !.pc = "insert", !.wid = wid,
                                !.details = w.details])
           ELSE ReturnAtStart("create_session", "none", 500, wid, 0)
    /\ UNCHANGED <<workouts, sessions, messages, users, settings>>

\* create_session: insert of the session row with the details read.
CreateSessionInsert(s) ==
    /\ tasks[s].op = "create_session" /\ tasks[s].pc = "insert"
    /\ sessions' = [sessions EXCEPT ![NextSid] = SessionPayload(Caller, tasks[s])]
    /\ Resume(s, [tasks[s] EXCEPT !.pc = "greet", !.sid = NextSid])
    /\ UNCHANGED <<workouts, messages, users, settings>>

\* create_session: add_message(session["id"], "assistant", greeting).
CreateSessionGreet(s) ==
    /\ tasks[s].op = "create_session" /\ tasks[s].pc = "greet"
    /\ messages' = [messages EXCEPT ![tasks[s].sid] = Append(@, "assistant")]
    /\ Finish(s, "ok", 201)
    /\ UNCHANGED <<workouts, sessions, users, settings>>

\* send_message + send_trainer_message: get_session, the credential check,
\* then the user's message is stored.
SendMessageUser(s, sid) ==
    /\ CanStart(s)
    /\ Known(sid)
    /\ IF SessionFilter(sessions[sid], Caller)
         THEN IF KeyMissing
                THEN /\ ReturnAtStart("send_turn", "raise", 500, 0, sid)
                     /\ UNCHANGED messages
                ELSE /\ messages' = [messages EXCEPT ![sid] = Append(@, "user")]
                     /\ Suspend(s, [IdleTask EXCEPT
                            !.op = "send_turn", !.pc = "reply", !.sid = sid,
                            !.wid = sessions[sid].workout_id])
         ELSE /\ ReturnAtStart("send_turn", "none", 404, 0, sid)
              /\ UNCHANGED messages
    /\ UNCHANGED <<workouts, sessions, users, settings>>

\* send_trainer_message: the completion call raises or answers empty (an
\* uncaught exception, 500), or the reply is stored.
SendMessageReply(s) ==
    /\ tasks[s].op = "send_turn" /\ tasks[s].pc = "reply"
    /\ \/ /\ Finish(s, "raise", 500)
          /\ UNCHANGED messages
       \/ /\ messages' = [messages EXCEPT ![tasks[s].sid] = Append(@, "assistant")]
          /\ Finish(s, "ok", 200)
    /\ UNCHANGED <<workouts, sessions, users, settings>>

\* finish_session + finish_trainer_chat up to the generation: get_session,
\* the credential check, get_workout_by_id and the status check, then the
\* completion call.
FinishCheck(s, sid) ==
    /\ CanStart(s)
    /\ Known(sid)
    /\ IF ~SessionFilter(sessions[sid], Caller)
         THEN ReturnAtStart("finish", "none", 404, 0, sid)
         ELSE LET wid == sessions[sid].workout_id
                  w == workouts[wid] IN
              IF KeyMissing
                THEN ReturnAtStart("finish", "raise", 500, wid, sid)
              ELSE IF ~FinishAllowed(w, Caller)
                THEN ReturnAtStart("finish", "none", 500, wid, sid)
                ELSE \/ ReturnAtStart("finish", "raise", 500, wid, sid)
                     \/ \E g \in GenResults :
                          Suspend(s, [IdleTask EXCEPT !.op = "finish",
                                          !.pc = "write", !.wid = wid, !.sid = sid,
                                          !.details = g.details,
                                          !.calories = g.calories])
    /\ UNCHANGED <<workouts, sessions, messages, users, settings>>

\* finish_trainer_chat: update of the workout with the draft filter.
FinishWrite(s) ==
    /\ tasks[s].op = "finish" /\ tasks[s].pc = "write"
    /\ LET wid == tasks[s].wid
           w == workouts[wid] IN
         IF FinishUpdateFilter(w, Caller)
           THEN /\ workouts' = [workouts EXCEPT ![wid] = FinishUpdate(w, tasks[s])]
                /\ Resume(s, [tasks[s] EXCEPT !.pc = "mark"])
           ELSE /\ UNCHANGED workouts
                /\ Finish(s, "none", 500)
    /\ UNCHANGED <<sessions, messages, users, settings>>

\* finish_trainer_chat: update of the session, filtered by id and user only.
FinishMark(s) ==
    /\ tasks[s].op = "finish" /\ tasks[s].pc = "mark"
    /\ sessions' = [sessions EXCEPT ![tasks[s].sid] = FinishSessionUpdate(@, tasks[s])]
    /\ Finish(s, "ok", 200)
    /\ UNCHANGED <<workouts, messages, users, settings>>

\* revert_session + revert_trainer_chat: get_session, the snapshot check and
\* the update of the workout with the draft filter.  No handler changes a
\* session's workout_id or original_workout_details, so reading them in the
\* step of the update loses no interleaving.
RevertWrite(s, sid) ==
    /\ CanStart(s)
    /\ Known(sid)
    /\ IF ~SessionFilter(sessions[sid], Caller)
         THEN /\ ReturnAtStart("revert", "none", 404, 0, sid)
              /\ UNCHANGED workouts
         ELSE LET wid == sessions[sid].workout_id
                  w == workouts[wid] IN
              IF sessions[sid].original = Null \/ ~RevertUpdateFilter(w, Caller)
                THEN /\ ReturnAtStart("revert", "none", 500, wid, sid)
                     /\ UNCHANGED workouts
                ELSE /\ workouts' = [workouts EXCEPT ![wid] =
                           RevertUpdate(w, sessions[sid])]
                     /\ Suspend(s, [IdleTask EXCEPT !.op = "revert", !.pc = "mark",
                                        !.wid = wid, !.sid = sid])
    /\ UNCHANGED <<sessions, messages, users, settings>>

\* revert_trainer_chat: update of the session, filtered by id and user only.
RevertMark(s) ==
    /\ tasks[s].op = "revert" /\ tasks[s].pc = "mark"
    /\ sessions' = [sessions EXCEPT ![tasks[s].sid] = RevertSessionUpdate(@)]
    /\ Finish(s, "ok", 200)
    /\ UNCHANGED <<workouts, messages, users, settings>>

(* --------------------------- read-only queries ------------------------- *)
\* The ids of the rows each computation is fed; every limit of these queries
\* (5 and more) exceeds the number of rows of a user here.
\* get_user_workouts: {user_id, status: eq.completed}
GetUserWorkouts(u) == {i \in WIds : workouts[i].user = u /\ workouts[i].status = "completed"}

\* get_workout_dates: {user_id, status: eq.completed}
GetWorkoutDates(u) == {i \in WIds : workouts[i].user = u /\ workouts[i].status = "completed"}

\* get_workout_stats: {user_id, status: eq.completed}
GetWorkoutStats(u) == {i \in WIds : workouts[i].user = u /\ workouts[i].status = "completed"}

\* calculate_workout_streak: {user_id, status: eq.completed}
CalculateWorkoutStreak(u) == {i \in WIds : workouts[i].user = u /\ workouts[i].status = "completed"}

\* attendance.calculate_attendance: {user_id}, no status in the filter.
CalculateAttendance(u) == {i \in WIds : workouts[i].user = u}

\* trainer_chat._get_recent_workouts: {user_id}, no status in the filter.
GetRecentWorkouts(u) == {i \in WIds : workouts[i].user = u}

(* ----------------------------- behaviour ------------------------------- *)
\* What WorkoutDraftCompleteRequest carries.
CompleteRequests == [details : Details, date : Dates, calories : {Null, <<250>>}]

\* A details value of the rows the store starts with.
SeedDetails == [i \in 1..NumEx |-> 1]

\* The draft create_workout_draft inserts for a request without groups or
\* reason when the rotation starts: its target is the first catalogue entry.
SeedRow ==
    [user |-> Caller, status |-> "draft", details |-> SeedDetails, date |-> 1,
     calories |-> Null, workout_type |-> "ai",
     generation_context |->
        [muscle_groups |-> Null, target_muscle_group |-> MUSCLE_GROUPS_COMBINED[1],
         wellbeing_reason |-> Null, mode |-> "standard"]]

\* The caller's users row after that request.
SeedUser ==
    [is_pro |-> FALSE, gender |-> "m",
     last_muscle_group |-> MUSCLE_GROUPS_COMBINED[1]]

\* The store as earlier requests left it: a draft of another user, a draft of
\* the caller as create_workout_draft inserts it and, possibly, a session
\* opened on that draft: one with the snapshot create_session takes, or one
\* whose original_workout_details was never populated.
Init ==
    /\ workouts = [i \in WIds |->
            IF i = 1 THEN [SeedRow EXCEPT !.user = Other]
            ELSE IF i = 2 THEN SeedRow
            ELSE AbsentRow]
    /\ users = SeedUser
    /\ settings \in Settings
    /\ \/ /\ sessions = [i \in SIds |-> AbsentSession]
          /\ messages = [i \in SIds |-> << >>]
       \/ /\ \E snap \in {Null, SeedDetails} :
               sessions = [i \in SIds |->
                  IF i = 1 THEN [user |-> Caller, status |-> "active",
                                 workout_id |-> 2, original |-> snap,
                                 updated |-> Null]
                  ELSE AbsentSession]
          /\ messages = [i \in SIds |-> IF i = 1 THEN <<"assistant">> ELSE << >>]
    /\ tasks = [s \in Slots |-> IdleTask]
    /\ resp = NoResp
    /\ nOps = 0

Next ==
    \/ \E s \in Slots, data \in DraftRequests, dt \in Dates : CreateDraftGenerate(s, data, dt)
    \/ \E s \in Slots : CreateDraftUpdateLast(s)
    \/ \E s \in Slots : CreateDraftInsert(s)
    \/ \E s \in Slots, wid \in WIds : DeleteDraftRead(s, wid)
    \/ \E s \in Slots : DeleteDraftWrite(s)
    \/ \E s \in Slots, wid \in WIds : ReplaceDraftRead(s, wid)
    \/ \E s \in Slots : ReplaceDraftUpdateLast(s)
    \/ \E s \in Slots : ReplaceDraftWrite(s)
    \/ \E s \in Slots, wid \in WIds, index \in -1..NumEx : ReplaceExerciseRead(s, wid, index)
    \/ \E s \in Slots : ReplaceExerciseWrite(s)
    \/ \E s \in Slots, wid \in WIds, data \in CompleteRequests : CompleteDraftRead(s, wid, data)
    \/ \E s \in Slots : CompleteDraftWrite(s)
    \/ \E s \in Slots, wid \in WIds, dt \in Dates : CloneRead(s, wid, dt)
    \/ \E s \in Slots : CloneInsert(s)
    \/ \E s \in Slots, wid \in WIds : CreateSessionRead(s, wid)
    \/ \E s \in Slots : CreateSessionInsert(s)
    \/ \E s \in Slots : CreateSessionGreet(s)
    \/ \E s \in Slots, sid \in SIds : SendMessageUser(s, sid)
    \/ \E s \in Slots : SendMessageReply(s)
    \/ \E s \in Slots, sid \in SIds : FinishCheck(s, sid)
    \/ \E s \in Slots : FinishWrite(s)
    \/ \E s \in Slots : FinishMark(s)
    \/ \E s \in Slots, sid \in SIds : RevertWrite(s, sid)
    \/ \E s \in Slots : RevertMark(s)

Spec == Init /\ [][Next]_vars

(* ============================ properties ============================== *)
\* The task in slot s takes its step.
Stepped(s) == tasks[s].op # "idle" /\ tasks'[s] # tasks[s]

\* The row with id wid is a completed row.
IsCompleted(wid) == workouts[wid].status = "completed"

\* The write of a replace or finish task arrives at a row that has become
\* completed since the task read it.
LateWrite(s) ==
    /\ tasks[s].op \in {"replace_draft", "replace_exercise", "finish"}
    /\ tasks[s].pc = "write"
    /\ IsCompleted(tasks[s].wid)
    /\ Stepped(s)

\* The revert of session sid writes to a row that has become completed.
LateRevert(s, sid) ==
    /\ nOps' = nOps + 1
    /\ SessionFilter(sessions[sid], Caller)
    /\ sessions[sid].original # Null
    /\ IsCompleted(sessions[sid].workout_id)
    /\ RevertWrite(s, sid)

\* The losing action changes no row and returns None.
LoserChangesNothing ==
    /\ \A s \in Slots :
         LateWrite(s) =>
            /\ workouts' = workouts
            /\ sessions' = sessions
            /\ tasks'[s] = IdleTask
            /\ resp'.op = tasks[s].op /\ resp'.ret = "none"
    /\ \A s \in Slots, sid \in SIds :
         LateRevert(s, sid) =>
            /\ workouts' = workouts
            /\ sessions' = sessions
            /\ tasks' = tasks
            /\ resp'.op = "revert" /\ resp'.ret = "none"

\* Whatever a step changes in a row that is completed afterwards was written
\* by the complete_draft task of that row, from its request.
CompletedContentFromComplete ==
    \A wid \in WIds :
        (workouts'[wid] # workouts[wid] /\ workouts'[wid].status = "completed") =>
            \E s \in Slots :
                /\ tasks[s].op = "complete_draft" /\ tasks[s].wid = wid
                /\ tasks'[s] = IdleTask
                /\ workouts[wid].status = "draft"
                /\ workouts'[wid].details = tasks[s].details
                /\ workouts'[wid].date = tasks[s].date

\* C1: when replace_draft, replace_exercise, chat finish or chat revert races
\* with complete_draft on one draft, the write that arrives after the row
\* became completed matches no row: it changes nothing and the action returns
\* None (not found), and the content of a completed row is always the content
\* complete_draft wrote.
C1_OptimisticDraftGuard == [][LoserChangesNothing /\ CompletedContentFromComplete]_vars

\* A replace_draft or replace_exercise lost the race: it returned None from
\* its write step and the row is completed.
C1_Witness ==
    /\ resp.op \in {"replace_draft", "replace_exercise"}
    /\ resp.pc = "write" /\ resp.ret = "none"
    /\ workouts[resp.wid].user = Caller
    /\ workouts[resp.wid].status = "completed"

\* C2: a completed row keeps its details, date and status through every step
\* of replace_draft, replace_exercise, complete_draft, delete_draft, chat
\* finish and chat revert; it never becomes a draft again.
C2_CompletedImmutable ==
    [][\A wid \in WIds :
          IsCompleted(wid) =>
             /\ workouts'[wid].status = "completed"
             /\ workouts'[wid].details = workouts[wid].details
             /\ workouts'[wid].date = workouts[wid].date]_vars

\* A mutation was attempted on a completed row of the caller and answered.
C2_Witness ==
    /\ resp.op \in {"replace_draft", "replace_exercise", "complete_draft",
                    "delete_draft", "finish", "revert"}
    /\ resp.wid \in WIds
    /\ workouts[resp.wid].user = Caller
    /\ workouts[resp.wid].status = "completed"
    /\ resp.ret # "ok"

\* A complete_draft request for row wid starts in this step.
CompleteCalled(wid) == \E s \in Slots, data \in CompleteRequests : CompleteDraftRead(s, wid, data)

\* C3: complete_draft called with the id of a row that is not a draft of the
\* caller (completed already, or another user's) returns None, answered 404,
\* and changes no row; and a complete_draft that writes wrote to a draft of the
\* caller.
C3_CompleteOnlyOwnDraft ==
    [][/\ \A wid \in WIds :
            (/\ nOps' = nOps + 1
             /\ workouts[wid].user # Caller \/ workouts[wid].status # "draft"
             /\ CompleteCalled(wid)) =>
                  /\ resp'.op = "complete_draft" /\ resp'.wid = wid
                  /\ resp'.ret = "none" /\ resp'.code = 404
                  /\ tasks' = tasks
                  /\ workouts' = workouts
       /\ \A s \in Slots :
            (Stepped(s) /\ tasks[s].op = "complete_draft") =>
               /\ tasks[s].pc = "write"
               /\ IF workouts[tasks[s].wid].user = Caller
                     /\ workouts[tasks[s].wid].status = "draft"
                    THEN resp'.ret = "ok" /\ resp'.code = 200
                    ELSE /\ resp'.ret = "none" /\ resp'.code = 404
                         /\ workouts' = workouts]_vars

\* complete_draft was answered 404 for a row of another user, which is still
\* what it was.
C3_Witness ==
    /\ resp.op = "complete_draft" /\ resp.code = 404
    /\ resp.wid \in WIds
    /\ workouts[resp.wid].user = Other
    /\ workouts[resp.wid].details = SeedDetails

\* C4: the workout list, dates, statistics, streak, attendance and chat
\* history of a user are computed from that user's completed rows only, never
\* from a draft.
C4_DraftsInvisible ==
    \A u \in {Caller, Other} :
        \A i \in GetUserWorkouts(u) \cup GetWorkoutDates(u) \cup GetWorkoutStats(u)
                 \cup CalculateWorkoutStreak(u) \cup CalculateAttendance(u)
                 \cup GetRecentWorkouts(u) :
            workouts[i].status = "completed"

\* C5: a session's status changes only from active, to finished or to
\* reverted; a finished or reverted session keeps its status.
C5_SessionStatusTerminal ==
    [][\A sid \in SIds :
          (sessions[sid].status # "absent"
             /\ sessions'[sid].status # sessions[sid].status) =>
                /\ sessions[sid].status = "active"
                /\ sessions'[sid].status \in {"finished", "reverted"}]_vars

\* The number of requests still running.
Running(t) == Cardinality({s \in Slots : t[s].op # "idle"})

\* A request is answered in this step.
Answered == nOps' - Running(tasks') = nOps - Running(tasks) + 1

\* The workout session sid links to is missing or not a draft of the caller.
LinkedNotDraft(sid) ==
    LET w == workouts[sessions[sid].workout_id] IN
        w.user # Caller \/ w.status # "draft"

\* C6: a chat turn, finish or revert answered while the workout of its session
\* is missing or no longer a draft is answered not-found (404).
C6_ChatFailsNotFound ==
    [][(/\ Answered
        /\ resp'.op \in {"send_turn", "finish", "revert"}
        /\ resp'.sid \in SIds
        /\ SessionFilter(sessions[resp'.sid], Caller)
        /\ LinkedNotDraft(resp'.sid)) => resp'.code = 404]_vars

\* A finish request for session sid starts in this step.
FinishCalled(sid) == \E s \in Slots : FinishCheck(s, sid)

\* C7: chat finish on a session whose workout is completed already, when
\* finish starts or when its write arrives, changes no workout, no session
\* and no message, and the request ends there without a workout: with None,
\* or with the configuration error when the credential is missing.
C7_FinishOnCompletedWritesNothing ==
    [][/\ \A sid \in SIds :
            (/\ nOps' = nOps + 1
             /\ SessionFilter(sessions[sid], Caller)
             /\ IsCompleted(sessions[sid].workout_id)
             /\ FinishCalled(sid)) =>
                /\ workouts' = workouts
                /\ sessions' = sessions
                /\ messages' = messages
                /\ tasks' = tasks
                /\ resp'.op = "finish"
                /\ resp'.ret = IF KeyMissing THEN "raise" ELSE "none"
       /\ \A s \in Slots :
            (/\ Stepped(s)
             /\ tasks[s].op = "finish" /\ tasks[s].pc = "write"
             /\ IsCompleted(tasks[s].wid)) =>
                /\ workouts' = workouts
                /\ sessions' = sessions
                /\ messages' = messages
                /\ tasks'[s] = IdleTask
                /\ resp'.op = "finish" /\ resp'.ret = "none"]_vars

\* finish lost the race with complete_draft: it returned None from its write
\* step, the workout is completed and the session is still active.
C7_Witness ==
    /\ resp.op = "finish" /\ resp.pc = "write" /\ resp.ret = "none"
    /\ workouts[resp.wid].status = "completed"
    /\ sessions[resp.sid].status = "active"
    /\ sessions[resp.sid].updated = Null

\* C8: the write of a finish that succeeds puts the regenerated details on the
\* row the session links to, which is a draft before and after, and changes
\* no other row; finish returns a workout only after it marked the session
\* finished.
C8_FinishRewritesDraft ==
    [][\A s \in Slots :
          (Stepped(s) /\ tasks[s].op = "finish") =>
             LET wid == tasks[s].wid
                 sid == tasks[s].sid IN
             /\ (tasks'[s].op = "finish") =>
                   /\ tasks[s].pc = "write" /\ tasks'[s].pc = "mark"
                   /\ wid = sessions[sid].workout_id
                   /\ workouts[wid].status = "draft"
                   /\ workouts'[wid].status = "draft"
                   /\ workouts'[wid].user = workouts[wid].user
                   /\ workouts'[wid].details = tasks[s].details
                   /\ \A j \in WIds : j # wid => workouts'[j] = workouts[j]
                   /\ sessions' = sessions
             /\ (tasks'[s] = IdleTask /\ resp'.ret = "ok") =>
                   /\ tasks[s].pc = "mark"
                   /\ sessions'[sid].status = "finished"
                   /\ sessions'[sid].workout_id = wid
                   /\ workouts' = workouts]_vars

\* finish returned the rewritten workout: the session is finished and its
\* workout is a draft that carries the regenerated details.
C8_Witness ==
    /\ resp.op = "finish" /\ resp.ret = "ok"
    /\ sessions[resp.sid].status = "finished"
    /\ workouts[resp.wid].status = "draft"
    /\ workouts[resp.wid].details = sessions[resp.sid].updated
    /\ workouts[resp.wid].details # sessions[resp.sid].original

\* A revert request for session sid starts in this step.
RevertCalled(sid) == \E s \in Slots : RevertWrite(s, sid)

\* C9: the write of a revert that succeeds leaves the linked workout a draft
\* whose details are the session's snapshot, and the snapshot of a session is
\* never rewritten after its creation, whatever changed the draft since; the
\* revert returns a workout only after it marked the session reverted; revert
\* on a session without a snapshot returns None and writes nothing.
C9_RevertRestoresSnapshot ==
    [][/\ \A sid \in SIds :
            sessions[sid].status # "absent" =>
               sessions'[sid].original = sessions[sid].original
       /\ \A s \in Slots :
            (tasks[s].op = "idle" /\ tasks'[s].op = "revert") =>
               LET wid == tasks'[s].wid
                   sid == tasks'[s].sid IN
               /\ wid = sessions[sid].workout_id
               /\ sessions[sid].original # Null
               /\ workouts[wid].status = "draft"
               /\ workouts'[wid].status = "draft"
               /\ workouts'[wid].details = sessions[sid].original
               /\ \A j \in WIds : j # wid => workouts'[j] = workouts[j]
       /\ \A s \in Slots :
            (Stepped(s) /\ tasks[s].op = "revert") =>
               /\ resp'.ret = "ok"
               /\ sessions'[tasks[s].sid].status = "reverted"
               /\ workouts' = workouts
       /\ \A sid \in SIds :
            (/\ nOps' = nOps + 1
             /\ SessionFilter(sessions[sid], Caller)
             /\ sessions[sid].original = Null
             /\ RevertCalled(sid)) =>
                /\ workouts' = workouts
                /\ sessions' = sessions
                /\ tasks' = tasks
                /\ resp'.op = "revert" /\ resp'.ret = "none"]_vars

\* A revert returned the workout after a finish had rewritten the draft: the
\* session is reverted and the draft carries the snapshot again.
C9_Witness ==
    /\ resp.op = "revert" /\ resp.ret = "ok"
    /\ sessions[resp.sid].status = "reverted"
    /\ sessions[resp.sid].updated # Null
    /\ sessions[resp.sid].updated # sessions[resp.sid].original
    /\ workouts[resp.wid].status = "draft"
    /\ workouts[resp.wid].details = sessions[resp.sid].original

\* A create_session request for workout wid starts in this step.
CreateSessionCalled(wid) == \E s \in Slots : CreateSessionRead(s, wid)

\* The session rows that exist.
Existing(ss) == {i \in SIds : ss[i].status # "absent"}

\* C10: create_session called for a workout that is missing, another user's
\* or not a draft creates no session and no message; otherwise it reads the
\* draft's details, inserts exactly one session, active, linked to that
\* workout, with those details as its snapshot, and returns it with a message
\* log of exactly one assistant message.
C10_CreateSession ==
    [][/\ \A wid \in WIds :
            (/\ nOps' = nOps + 1
             /\ workouts[wid].user # Caller \/ workouts[wid].status # "draft"
             /\ CreateSessionCalled(wid)) =>
                /\ sessions' = sessions
                /\ messages' = messages
                /\ tasks' = tasks
                /\ resp'.op = "create_session" /\ resp'.ret = "none"
       /\ \A s \in Slots :
            (tasks[s].op = "idle" /\ tasks'[s].op = "create_session") =>
               /\ workouts[tasks'[s].wid].user = Caller
               /\ workouts[tasks'[s].wid].status = "draft"
               /\ tasks'[s].details = workouts[tasks'[s].wid].details
               /\ sessions' = sessions /\ messages' = messages
       /\ \A s \in Slots :
            (Stepped(s) /\ tasks[s].op = "create_session" /\ tasks[s].pc = "insert") =>
               LET sid == tasks'[s].sid IN
               /\ Existing(sessions') = Existing(sessions) \cup {sid}
               /\ sid \notin Existing(sessions)
               /\ sessions'[sid].user = Caller
               /\ sessions'[sid].status = "active"
               /\ sessions'[sid].workout_id = tasks[s].wid
               /\ sessions'[sid].original = tasks[s].details
               /\ messages' = messages /\ messages[sid] = << >>
       /\ \A s \in Slots :
            (Stepped(s) /\ tasks[s].op = "create_session" /\ tasks[s].pc = "greet") =>
               /\ resp'.ret = "ok" /\ resp'.sid = tasks[s].sid
               /\ sessions' = sessions
               /\ sessions[tasks[s].sid].status = "active"
               /\ messages'[tasks[s].sid] = <<"assistant">>
       /\ Existing(sessions') # Existing(sessions) =>
            \E s \in Slots : tasks[s].op = "create_session" /\ tasks[s].pc = "insert"]_vars

\* create_session returned a session: it is active, its snapshot is what the
\* draft holds and its log is the one assistant message.
C10_Witness ==
    /\ resp.op = "create_session" /\ resp.ret = "ok"
    /\ sessions[resp.sid].status = "active"
    /\ sessions[resp.sid].workout_id = resp.wid
    /\ sessions[resp.sid].original = workouts[resp.wid].details
    /\ sessions[resp.sid].original # Null
    /\ messages[resp.sid] = <<"assistant">>

\* The four tables.
Store == <<workouts, sessions, messages, users>>

\* The request t has applied a write in one of its earlier steps: a turn has
\* stored the user's message, create_session its session, finish and revert
\* the workout, replace_draft and create_draft last_muscle_group.
WroteBefore(t) ==
    \/ t.op = "send_turn" /\ t.pc = "reply"
    \/ t.op = "create_session" /\ t.pc = "greet"
    \/ t.op \in {"finish", "revert"} /\ t.pc = "mark"
    \/ t.op = "replace_draft" /\ t.pc = "write"
          /\ t.kind \in {"random_ai", "wellbeing"}
    \/ t.op = "create_draft" /\ t.pc = "insert"

\* A request is answered without success from its first step.
FailsAtStart == nOps' = nOps + 1 /\ tasks' = tasks /\ resp'.ret # "ok"

\* The request in slot s is answered without success from a later step.
FailsLater(s) == Stepped(s) /\ tasks'[s] = IdleTask /\ resp'.ret # "ok"

\* C11: a mutation that is answered without success (None or an exception)
\* has written nothing: the step that fails changes no table and no earlier
\* step of the request did.
C11_AllOrNothing ==
    [][/\ FailsAtStart => Store' = Store
       /\ \A s \in Slots :
            FailsLater(s) => Store' = Store /\ ~WroteBefore(tasks[s])]_vars

\* A replace_exercise request for row wid and slot index starts in this step.
ReplaceExerciseCalled(wid, index) == \E s \in Slots : ReplaceExerciseRead(s, wid, index)

\* C12: replace_exercise called for a row that is not a draft of the caller,
\* or with an index outside the exercise list, returns None and writes
\* nothing; a replace_exercise that writes stores details with as many
\* exercises as the draft had immediately before the write and the same
\* exercise at every position other than index, and changes no other row.
C12_ReplaceExerciseFrame ==
    [][/\ \A wid \in WIds, index \in -1..NumEx :
            (/\ nOps' = nOps + 1
             /\ \/ ~ReplaceExerciseFilter(workouts[wid], Caller)
                \/ index < 0
                \/ index >= Len(workouts[wid].details)
             /\ ReplaceExerciseCalled(wid, index)) =>
                /\ Store' = Store
                /\ tasks' = tasks
                /\ resp'.op = "replace_exercise" /\ resp'.ret = "none"
       /\ \A s \in Slots :
            (Stepped(s) /\ tasks[s].op = "replace_exercise") =>
               LET wid == tasks[s].wid
                   before == workouts[wid].details
                   after == workouts'[wid].details IN
               /\ \A j \in WIds : j # wid => workouts'[j] = workouts[j]
               /\ resp'.ret # "ok" => workouts' = workouts
               /\ resp'.ret = "ok" =>
                     /\ Len(after) = Len(before)
                     /\ \A i \in 1..Len(before) :
                           i # tasks[s].idx + 1 => after[i] = before[i]]_vars

\* A clone_to_draft request for row wid starts in this step.
CloneCalled(wid) == \E s \in Slots, dt \in Dates : CloneRead(s, wid, dt)

\* The ids of the rows that exist or have existed.
UsedWids(ws) == {i \in WIds : ws[i].status # "absent"}

CreateDraftCalled(data) == \E s \in Slots, dt \in Dates : CreateDraftGenerate(s, data, dt)

\* C14: a create_draft outside wellbeing mode stores last_muscle_group (the
\* first selected group, else the next group of the rotation) in its first
\* step, before the generation returns or fails, and never again; a
\* create_draft in wellbeing mode leaves last_muscle_group as it is while the
\* generation runs or fails and stores the first generated group in the step
\* after the generation, before the insert.
C14_LastGroupOrdering ==
    [][/\ \A data \in DraftRequests :
            (nOps' = nOps + 1 /\ CreateDraftCalled(data)) =>
               IF IsWellbeingMode(data)
                 THEN users' = users
                 ELSE /\ users'.last_muscle_group =
                            IF data.muscle_groups # Null
                              THEN <<data.muscle_groups[1]>>
                              ELSE GetNextMuscleGroupForUser(users)
                      /\ \A s \in Slots :
                            tasks'[s].op = "create_draft" /\ tasks[s].op = "idle"
                               => tasks'[s].pc = "insert"
       /\ \A s \in Slots :
            (Stepped(s) /\ tasks[s].op = "create_draft") =>
               IF tasks[s].pc = "rotate"
                 THEN /\ tasks[s].details # Null
                      /\ IsWellbeingMode(tasks[s].generation_context)
                      /\ users'.last_muscle_group = <<tasks[s].target[1]>>
                      /\ workouts' = workouts
                      /\ tasks'[s].pc = "insert"
                 ELSE users' = users]_vars

\* The generation of a create_draft without groups or reason failed, and the
\* rotation is advanced all the same.
C14_Witness ==
    /\ nOps = 1
    /\ resp.op = "create_draft" /\ resp.ret = "raise"
    /\ users.last_muscle_group = GetNextMuscleGroupForUser(SeedUser)
    /\ users.last_muscle_group # SeedUser.last_muscle_group

\* Row w is a plain AI-mode draft: no explicit groups, no wellbeing reason.
PlainAi(w) ==
    /\ w.workout_type = "ai"
    /\ w.generation_context.muscle_groups = Null
    /\ w.generation_context.wellbeing_reason = Null

\* Row w is a wellbeing-mode draft.
WellbeingDraft(w) ==
    /\ w.generation_context.mode = "wellbeing"
    /\ w.generation_context.wellbeing_reason # Null

\* A replace_draft of a plain AI-mode draft takes the next group of the
\* rotation, counted from the last_muscle_group the request read, as the
\* group it regenerates for, and stores it as last_muscle_group before the
\* generation.
PlainAiRotates ==
    \A s \in Slots :
        /\ (tasks[s].op = "idle" /\ tasks'[s].op = "replace_draft"
               /\ PlainAi(workouts[tasks'[s].wid])) =>
                  /\ tasks'[s].pc = "rotate"
                  /\ tasks'[s].target = GetNextMuscleGroupForUser(users)
                  /\ tasks'[s].last = tasks'[s].target
                  /\ Store' = Store
        /\ (Stepped(s) /\ tasks[s].op = "replace_draft" /\ tasks[s].pc = "rotate") =>
                  /\ users'.last_muscle_group = tasks[s].last
                  /\ workouts' = workouts

\* C15 as claimed: the write of a replace_draft stores the rotated group as
\* the target of a plain AI-mode draft and leaves the recorded target of
\* every other draft unchanged.
C15_ReplaceRotatesOnlyPlainAi ==
    [][/\ PlainAiRotates
       /\ \A s \in Slots :
            (/\ Stepped(s) /\ tasks[s].op = "replace_draft"
             /\ tasks[s].pc = "write" /\ resp'.ret = "ok") =>
                LET w == workouts[tasks[s].wid]
                    after == workouts'[tasks[s].wid] IN
                after.generation_context.target_muscle_group =
                    IF PlainAi(w) THEN tasks[s].target
                    ELSE w.generation_context.target_muscle_group]_vars

\* C15 amended: replace_draft advances the rotation on a plain AI-mode draft;
\* on a wellbeing-mode draft it regenerates for the recorded reason, stores
\* the first generated group as last_muscle_group after the generation and
\* the generated groups as the target; on every other draft it regenerates for
\* the recorded target and leaves the generation context and
\* last_muscle_group unchanged.
C15_ReplaceByKind ==
    [][/\ PlainAiRotates
       /\ \A s \in Slots :
            (tasks[s].op = "idle" /\ tasks'[s].op = "replace_draft") =>
               LET w == workouts[tasks'[s].wid] IN
               /\ tasks'[s].generation_context = w.generation_context
               /\ WellbeingDraft(w) =>
                     /\ tasks'[s].pc = "rotate"
                     /\ tasks'[s].target \in WellbeingGroups
                     /\ tasks'[s].last = <<tasks'[s].target[1]>>
                     /\ tasks'[s].details # Null
               /\ (~WellbeingDraft(w) /\ ~PlainAi(w)) =>
                     /\ tasks'[s].pc = "write"
                     /\ tasks'[s].target = w.generation_context.target_muscle_group
       /\ \A s \in Slots :
            (Stepped(s) /\ tasks[s].op = "replace_draft" /\ tasks[s].pc = "write") =>
               LET w == workouts[tasks[s].wid]
                   after == workouts'[tasks[s].wid] IN
               /\ users' = users
               /\ resp'.ret = "ok" =>
                     IF PlainAi(w) \/ WellbeingDraft(w)
                       THEN after.generation_context =
                               [w.generation_context EXCEPT
                                   !.target_muscle_group = tasks[s].target]
                       ELSE after.generation_context = w.generation_context]_vars

\* A replace_draft rewrote a draft that selects its group: target and
\* last_muscle_group are what the create_draft before it stored.
C15_Witness ==
    /\ resp.op = "replace_draft" /\ resp.ret = "ok"
    /\ workouts[resp.wid].workout_type = "personal"
    /\ workouts[resp.wid].generation_context.target_muscle_group = <<"legs">>
    /\ users.last_muscle_group = <<"legs">>

\* C16: create_draft, replace_draft and replace_exercise answer a precondition
\* violation (None) with 404 and every failure of the generation, invalid
\* output or an error of the provider, with 502.
C16_TypedFailures ==
    resp.op \in {"create_draft", "replace_draft", "replace_exercise"} =>
        /\ resp.ret = "none" => resp.code = 404
        /\ resp.ret = "raise" => resp.code = 502

\* The operations that call the completion service.
GenerationOps ==
    {"create_draft", "replace_draft", "replace_exercise", "send_turn", "finish"}

\* A request of one of these operations takes a step: its first one, answered
\* at once or suspended, or a later one.
GenerationStep ==
    \/ nOps' = nOps + 1 /\ tasks' = tasks /\ resp'.op \in GenerationOps
    \/ \E s \in Slots :
          /\ tasks'[s] # tasks[s]
          /\ tasks[s].op \in GenerationOps \/ tasks'[s].op \in GenerationOps

\* C27: without the credential, no step of create_draft, replace_draft,
\* replace_exercise, send_turn or finish writes to a table, and none of them
\* is answered with success.  (No completion request is issued: without the
\* credential a generation has no result.)
C27_CredentialFatal ==
    [][(KeyMissing /\ GenerationStep) =>
          /\ Store' = Store
          /\ resp' # resp => resp'.ret # "ok"]_vars

\* The request t is rotation-driven, a replace_draft of a plain AI draft or a
\* create_draft without groups or reason, and holds the workout generated for
\* the group it took from the rotation.
RotationDriven(t) ==
    /\ t.details # Null
    /\ \/ t.op = "replace_draft" /\ t.kind = "random_ai"
       \/ t.op = "create_draft" /\ t.workout_type = "ai"

\* C29: two rotation-driven requests of one user that run at the same time
\* do not record the same group for their drafts, as no two requests that
\* run one after the other do.
C29_RotationSerializable ==
    \A s, t \in Slots :
        (s # t /\ RotationDriven(tasks[s]) /\ RotationDriven(tasks[t])) =>
            tasks[s].target # tasks[t].target

(* ===================== rotation as a function ========================= *)
\* The rotation applied over and over to one users row: the group
\* get_next_muscle_group_for_user returns is stored as last_muscle_group, as
\* create_workout_draft does for a request without groups or reason.
MaxRotations == 7

\* Every name of the catalogues, and one that is in none.
GroupNames == {"chest", "legs", "back", "shoulders", "arms", "abs", "glutes", "cardio"}

\* The values of last_muscle_group: None, a single name, a catalogue label or
\* a joined set.
LastGroups ==
    {Null} \cup {<<n>> : n \in GroupNames}
           \cup {MUSCLE_GROUPS_COMBINED[i] : i \in 1..Len(MUSCLE_GROUPS_COMBINED)}
           \cup {PRO_MUSCLE_SETS_MEN[i] : i \in 1..Len(PRO_MUSCLE_SETS_MEN)}
           \cup {PRO_MUSCLE_SETS_WOMEN[i] : i \in 1..Len(PRO_MUSCLE_SETS_WOMEN)}

RotationUsers ==
    [is_pro : BOOLEAN, gender : {"m", "f"}, last_muscle_group : LastGroups]

InitRotation ==
    /\ users \in RotationUsers
    /\ settings = SeedSettings
    /\ resp = NoResp
    /\ nOps = 0
    /\ workouts = [i \in WIds |-> AbsentRow]
    /\ sessions = [i \in SIds |-> AbsentSession]
    /\ messages = [i \in SIds |-> << >>]
    /\ tasks = [s \in Slots |-> IdleTask]

\* get_next_muscle_group_for_user(user), then _update_last_muscle_group; the
\* answer records the user passed and the group returned.
Rotate ==
    /\ nOps < MaxRotations
    /\ LET used == GetNextMuscleGroupForUser(users) IN
         /\ resp' = [user |-> users, group |-> used]
         /\ users' = UpdateLastMuscleGroup(users, used)
    /\ nOps' = nOps + 1
    /\ UNCHANGED <<workouts, sessions, messages, tasks, settings>>

NextRotation == Rotate

SpecRotation == InitRotation /\ [][NextRotation]_vars

\* C17: for a user on the standard rotation, a last_muscle_group found at
\* index i of the catalogue gives the entry at (i + 1) mod length, the first
\* entry after the last one; a last_muscle_group that is absent or not in the
\* catalogue gives the first entry.
C17_StandardRing ==
    (nOps > 0 /\ ~resp.user.is_pro) =>
        LET cat == MUSCLE_GROUPS_COMBINED
            last == resp.user.last_muscle_group IN
        /\ \A i \in 1..Len(cat) :
              last = cat[i] => resp.group = cat[IF i = Len(cat) THEN 1 ELSE i + 1]
        /\ (\A i \in 1..Len(cat) : last # cat[i]) => resp.group = cat[1]

\* The ring wrapped around: the last entry was followed by the first.
C17_Witness ==
    /\ nOps > 0 /\ ~resp.user.is_pro
    /\ resp.user.last_muscle_group = MUSCLE_GROUPS_COMBINED[Len(MUSCLE_GROUPS_COMBINED)]
    /\ resp.group = MUSCLE_GROUPS_COMBINED[1]
    /\ users.last_muscle_group = resp.group

\* The sets of the advanced rotation for a user.
ProSets(user) ==
    IF user.gender = "f" THEN PRO_MUSCLE_SETS_WOMEN ELSE PRO_MUSCLE_SETS_MEN

\* Set i of the user's list matches last: it is the joined set or a member.
ProMatches(user, i) ==
    \/ user.last_muscle_group = ProSets(user)[i]
    \/ \E k \in 1..Len(ProSets(user)[i]) :
          user.last_muscle_group = <<ProSets(user)[i][k]>>

\* C18: for a pro user the result is the set after the first set of the
\* gender's list that last_muscle_group equals when joined or is a member of,
\* the first set after the last one; without a last group or a matching set
\* it is the first set.
C18_ProRotation ==
    (nOps > 0 /\ resp.user.is_pro) =>
        LET u == resp.user
            sets == ProSets(u)
            M == {i \in 1..Len(sets) : ProMatches(u, i)} IN
        /\ M # {} =>
              \E i \in M :
                  /\ \A j \in M : i <= j
                  /\ resp.group = sets[IF i = Len(sets) THEN 1 ELSE i + 1]
        /\ M = {} => resp.group = sets[1]

\* A pro user whose last group is a member of the last set of her list got
\* the first set.
C18_Witness ==
    /\ nOps > 0 /\ resp.user.is_pro /\ resp.user.gender = "f"
    /\ resp.user.last_muscle_group = <<"shoulders">>
    /\ resp.group = PRO_MUSCLE_SETS_WOMEN[1]

(* ======================= attendance as a function ===================== *)
\* What the fetch of a user's workouts returns, by the date of each row:
\* inside the trailing 30 days, older, or not an ISO date.
MaxRecent == 24
MaxOld == 1
MaxBad == 1

FetchedRows == [recent : 0..MaxRecent, old : 0..MaxOld, bad : 0..MaxBad]

\* round(num / den) of Python 3: to the nearest integer, a tie to the even
\* one.
RoundHalfEven(num, den) ==
    LET q == num \div den
        r == num % den IN
    IF 2 * r < den THEN q
    ELSE IF 2 * r > den THEN q + 1
    ELSE IF q % 2 = 0 THEN q ELSE q + 1

\* min(5, max(1, x))
Clamp15(x) == IF x < 1 THEN 1 ELSE IF x > 5 THEN 5 ELSE x

\* total_workouts / (30 / 7), rounded to one decimal, in tenths.
AverageWeekly(total) == RoundHalfEven(70 * total, 30)

\* round(total_workouts / (30 / 7))
RoundedWeekly(total) == RoundHalfEven(7 * total, 30)

\* attendance.calculate_attendance: the fetch raises to the caller; no row
\* gives zeros; a row whose date does not parse is skipped; real_frequency is
\* min(5, max(1, round(avg))) for a non-empty window and 0 for an empty one.
CalculateAttendanceResult(rows, fetch) ==
    IF fetch = "error"
      THEN [fn |-> "calculate_attendance", ret |-> "raise", real_frequency |-> 0,
            average_weekly |-> 0, total_workouts |-> 0]
      ELSE [fn |-> "calculate_attendance", ret |-> "ok",
            real_frequency |-> IF rows.recent > 0
                                 THEN Clamp15(RoundedWeekly(rows.recent)) ELSE 0,
            average_weekly |-> AverageWeekly(rows.recent),
            total_workouts |-> rows.recent]

\* AIService._calculate_attendance: a failed fetch and a date that does not
\* parse are caught and answered with the fallback (3, 0, 0); no row gives
\* real_frequency 1; else min(5, max(1, round(average_weekly))), also for an
\* empty window.
AICalculateAttendance(rows, fetch) ==
    IF fetch = "error" \/ rows.bad > 0
      THEN [fn |-> "_calculate_attendance", ret |-> "ok", real_frequency |-> 3,
            average_weekly |-> 0, total_workouts |-> 0]
      ELSE IF rows.recent + rows.old = 0
        THEN [fn |-> "_calculate_attendance", ret |-> "ok", real_frequency |-> 1,
              average_weekly |-> 0, total_workouts |-> 0]
        ELSE [fn |-> "_calculate_attendance", ret |-> "ok",
              real_frequency |-> Clamp15(RoundedWeekly(rows.recent)),
              average_weekly |-> AverageWeekly(rows.recent),
              total_workouts |-> rows.recent]

\* The rows a user has; no call has been made.
InitAttendance ==
    /\ workouts \in FetchedRows
    /\ resp = NoResp
    /\ nOps = 0
    /\ users = SeedUser
    /\ settings = SeedSettings
    /\ sessions = [i \in SIds |-> AbsentSession]
    /\ messages = [i \in SIds |-> << >>]
    /\ tasks = [s \in Slots |-> IdleTask]

\* GET /attendance/stats: calculate_attendance(user); the fetch works or not.
GetAttendanceStats(fetch) ==
    /\ resp' = CalculateAttendanceResult(workouts, fetch) @@ [fetch |-> fetch]
    /\ UNCHANGED <<workouts, sessions, messages, users, tasks, nOps, settings>>

\* generate_workout_structured: self._calculate_attendance(user["id"]).
GenerationAttendance(fetch) ==
    /\ resp' = AICalculateAttendance(workouts, fetch) @@ [fetch |-> fetch]
    /\ UNCHANGED <<workouts, sessions, messages, users, tasks, nOps, settings>>

NextAttendance ==
    \/ \E fetch \in {"ok", "error"} : GetAttendanceStats(fetch)
    \/ \E fetch \in {"ok", "error"} : GenerationAttendance(fetch)

SpecAttendance == InitAttendance /\ [][NextAttendance]_vars

\* A call has returned a result computed from the rows fetched.
Computed ==
    /\ resp # NoResp
    /\ resp.ret = "ok" /\ resp.fetch = "ok"
    /\ resp.fn = "_calculate_attendance" => workouts.bad = 0

\* C19: a result computed from n rows in the 30-day window has real_frequency
\* in 0..5; for n > 0 average_weekly is n / (30 / 7) rounded to one decimal
\* and real_frequency is round(average_weekly) clamped to 1..5; for n = 0
\* real_frequency, average_weekly and total_workouts are 0.
C19_AttendanceFormula ==
    Computed =>
        LET n == workouts.recent IN
        /\ resp.real_frequency \in 0..5
        /\ resp.total_workouts = n
        /\ n > 0 =>
              /\ resp.average_weekly = RoundHalfEven(70 * n, 30)
              /\ resp.real_frequency =
                    Clamp15(RoundHalfEven(resp.average_weekly, 10))
        /\ n = 0 =>
              /\ resp.real_frequency = 0
              /\ resp.average_weekly = 0

\* C20: no attendance calculation raises to its caller; when the fetch fails
\* or a date does not parse, the result is the fallback: real_frequency 3 and
\* no workouts.
C20_AttendanceNeverRaises ==
    resp # NoResp =>
        /\ resp.ret = "ok"
        /\ (resp.fetch = "error" \/ workouts.bad > 0) =>
              /\ resp.real_frequency = 3
              /\ resp.total_workouts = 0

(* ===================== the generation gateway ========================= *)
\* One call of a generation function of AIService, request by request.  The
\* answers the completion service gives to its requests are fixed beforehand;
\* temperatures are in tenths.
MaxAnswers == 2

GatewayFns ==
    {"generate_workout_structured", "generate_wellbeing_workout_structured",
     "generate_workout_exercise"}

\* An answer of the completion service: content that parses and normalizes
\* ("valid"; "collides" when, for an exercise, its name equals one of the
\* existing names up to case), content _extract_json_object finds no object
\* in, content the normalization raises on (no valid exercise, no name), or
\* an exception of the client.
Answers == {"valid", "collides", "unparseable", "rejected", "error"}

GatewayInputs == [fn : GatewayFns, answers : [1..MaxAnswers -> Answers]]

\* temperature of the first request of each function.
FirstTemperature(fn) == 4

\* temperature of the repair request.
RepairTemperature == 0

\* Only generate_workout_structured asks for a repair of an answer that does
\* not parse.
Repairs(fn) == fn = "generate_workout_structured"

\* An outcome that fails on an exercise whose name collides.
AnswerOutcomeNoDuplicates(a) ==
    IF a = "error" THEN "provider"
    ELSE IF a = "valid" THEN "ok"
    ELSE "invalid"

\* What an answer that is not repaired ends the call with: the client's
\* exception, RuntimeError for content that does not parse or normalize, else
\* the normalized result, whatever its names.
AnswerOutcome(a) ==
    IF a = "error" THEN "provider"
    ELSE IF a \in {"unparseable", "rejected"} THEN "invalid"
    ELSE "ok"

\* The call has ended: ret is "ok" or the failure, out the answer that was
\* normalized, code what the workouts router answers.
GatewayDone(calls, temps, ret, a) ==
    [pc |-> "done", calls |-> calls, temps |-> temps, ret |-> ret,
     out |-> IF ret = "ok" THEN <<a>> ELSE Null,
     code |-> IF ret = "ok" THEN 200 ELSE FailureCode(ret)]

InitGateway ==
    /\ workouts \in GatewayInputs
    /\ settings \in Settings
    /\ resp = NoResp
    /\ nOps = 0
    /\ users = SeedUser
    /\ sessions = [i \in SIds |-> AbsentSession]
    /\ messages = [i \in SIds |-> << >>]
    /\ tasks = [s \in Slots |-> IdleTask]

\* The credential check, then client.chat.completions.create.
GatewayCall ==
    /\ resp = NoResp
    /\ resp' = IF KeyMissing
                 THEN GatewayDone(0, << >>, "config", "none")
                 ELSE [pc |-> "first", calls |-> 1,
                       temps |-> <<FirstTemperature(workouts.fn)>>,
                       ret |-> "none", out |-> Null, code |-> 0]
    /\ UNCHANGED <<workouts, sessions, messages, users, settings, tasks, nOps>>

\* The first answer: one that does not parse is sent back for repair by
\* generate_workout_structured; every other answer ends the call.
GatewayFirstAnswer ==
    /\ resp # NoResp /\ resp.pc = "first"
    /\ LET a == workouts.answers[1] IN
       resp' = IF a = "unparseable" /\ Repairs(workouts.fn)
                 THEN [resp EXCEPT !.pc = "repair", !.calls = 2,
                                   !.temps = Append(@, RepairTemperature)]
                 ELSE GatewayDone(resp.calls, resp.temps, AnswerOutcome(a), a)
    /\ UNCHANGED <<workouts, sessions, messages, users, settings, tasks, nOps>>

\* The answer to the repair request ends the call.
GatewayRepairAnswer ==
    /\ resp # NoResp /\ resp.pc = "repair"
    /\ LET a == workouts.answers[2] IN
       resp' = GatewayDone(resp.calls, resp.temps, AnswerOutcome(a), a)
    /\ UNCHANGED <<workouts, sessions, messages, users, settings, tasks, nOps>>

NextGateway ==
    \/ GatewayCall
    \/ GatewayFirstAnswer
    \/ GatewayRepairAnswer

SpecGateway == InitGateway /\ [][NextGateway]_vars

\* The answers the call has received so far.
AnswersReceived ==
    IF resp = NoResp THEN 0
    ELSE IF resp.pc = "done" THEN resp.calls
    ELSE resp.calls - 1

C22_OneRepair ==
    (resp # NoResp /\ workouts.fn # "generate_workout_exercise") =>
        /\ resp.calls <= 2
        /\ (resp.pc = "done" /\ resp.calls > 0
              /\ workouts.answers[1] = "unparseable") =>
              /\ resp.calls = 2
              /\ resp.temps[2] = 0
              /\ workouts.answers[2] \in {"valid", "collides"} => resp.ret = "ok"
              /\ workouts.answers[2] = "unparseable" => resp.ret = "invalid"

\* C23: a call that ends with an error of the provider is answered as
\* upstream-unavailable (502 or 503), after at most 3 requests; an answer the
\* normalization rejects is followed by no further request, one that does not
\* parse only by the repair request.
C23_TransientSurfaced ==
    resp # NoResp =>
        /\ resp.calls <= 3
        /\ \A k \in 1..AnswersReceived :
              /\ workouts.answers[k] = "rejected" => resp.calls = k
              /\ workouts.answers[k] = "unparseable" => resp.calls <= k + 1
        /\ (resp.pc = "done" /\ resp.ret = "provider") => resp.code \in {502, 503}

(* ====================== normalization as a function ==================== *)
\* _normalize_structured_workout applied to a raw result of the completion
\* service, and what the handlers store of the normalized result.
MaxItems == 2

allowed_reps == <<5, 8, 10, 12, 15>>
allowed_weight == <<0, 2, 4, 6, 8, 10, 12, 16, 20, 25, 30, 40, 50>>
allowed_sets == <<2, 3, 4, 5, 6>>
min_calories == 20
max_calories == 2000

\* A string: its text without the surrounding whitespace and in lower case,
\* whether it has upper-case letters, whether whitespace surrounds it.  The
\* blank string has no text.
Str == [text : {"", "a", "b"}, cap : BOOLEAN, pad : BOOLEAN]

\* str.strip()
Strip(x) == [x EXCEPT !.pad = FALSE]

\* str.lower()
Lower(x) == [x EXCEPT !.cap = FALSE]

\* not x.strip()
Blank(x) == x.text = ""

Plain(text) == [text |-> text, cap |-> FALSE, pad |-> FALSE]

\* An item of raw["exercises"] that is not a dict.
NotADict ==
    [dict |-> FALSE, name |-> Null, reps |-> Null, sets |-> Null,
     weight_kg |-> Null]

\* A dict item; a field that is absent or not of its type is None.
Item(name, reps, sets, weight) ==
    [dict |-> TRUE, name |-> name, reps |-> reps, sets |-> sets,
     weight_kg |-> weight]

\* Items: no dict, no name, a blank name, an exercise on the grid, the same
\* name in another case and padded with values between grid points, an
\* exercise without numbers, values beyond the grid.
RawItems ==
    {NotADict,
     Item(Null, <<12>>, <<3>>, <<4>>),
     Item(<<[text |-> "", cap |-> FALSE, pad |-> TRUE]>>, <<12>>, <<3>>, <<4>>),
     Item(<<Plain("a")>>, <<12>>, <<3>>, <<4>>),
     Item(<<[text |-> "a", cap |-> TRUE, pad |-> TRUE]>>, <<9>>, <<1>>, <<14>>),
     Item(<<Plain("b")>>, Null, Null, Null),
     Item(<<Plain("b")>>, <<100>>, <<9>>, <<60>>)}

RECURSIVE SeqsUpTo(_, _)
\* The sequences over set of length n at most.
SeqsUpTo(set, n) ==
    IF n = 0 THEN {<< >>}
    ELSE LET shorter == SeqsUpTo(set, n - 1) IN
         shorter \cup {Append(q, x) : q \in {r \in shorter : Len(r) = n - 1},
                                      x \in set}

\* raw["calories_burned"]: absent or of another type ("none"), a bool, an int,
\* a float (in tenths), a string that float() parses (in tenths), one it
\* does not.
RawCalories ==
    {[type |-> "none", v |-> 0], [type |-> "bool", v |-> 1],
     [type |-> "int", v |-> 300], [type |-> "int", v |-> 5000],
     [type |-> "int", v |-> -5], [type |-> "float", v |-> 199],
     [type |-> "float", v |-> 2507], [type |-> "str", v |-> 3005],
     [type |-> "badstr", v |-> 0]}

\* The raw results: title, version and muscle_groups absent, unusable or
\* usable; a list of exercises, possibly empty.
RawResults ==
    [title : {Null, <<[text |-> "", cap |-> FALSE, pad |-> TRUE]>>,
              <<[text |-> "a", cap |-> TRUE, pad |-> TRUE]>>},
     version : {Null, <<0>>, <<2>>},
     muscle_groups : {<< >>, <<"legs">>, <<"legs", "back", "arms">>},
     exercises : SeqsUpTo(RawItems, MaxItems),
     calories_burned : RawCalories]

\* The requested group, passed as fallback_muscle_group.
FallbackGroup == "chest"

\* title = "Тренировка"
DefaultTitle == Plain("workout")

Dist(x, y) == IF x < y THEN y - x ELSE x - y

\* min(allowed, key=lambda x: abs(x - value)): the first entry of allowed at
\* the least distance.
Snap(allowed, value) ==
    LET best == CHOOSE i \in 1..Len(allowed) :
                   \A j \in 1..Len(allowed) :
                      \/ Dist(allowed[i], value) < Dist(allowed[j], value)
                      \/ Dist(allowed[i], value) = Dist(allowed[j], value) /\ i <= j
    IN allowed[best]

\* A value that is not an int is replaced by the default, then snapped.
SnapOr(allowed, value, default) ==
    <<Snap(allowed, IF value = Null THEN default ELSE value[1])>>

NormTitle(title) ==
    IF title = Null \/ Blank(title[1]) THEN <<DefaultTitle>> ELSE <<Strip(title[1])>>

NormVersion(version) ==
    IF version = Null \/ version[1] < 1 THEN <<1>> ELSE version

\* A truncation that drops the first of several groups.
NormGroupsTail(muscle_groups, fallback) ==
    LET groups == IF muscle_groups = << >> THEN <<fallback>> ELSE muscle_groups IN
    IF Len(groups) >= 2 THEN Tail(groups) ELSE groups

\* muscle_groups[:2] of the list, or of [fallback] when it is absent or empty.
NormGroups(muscle_groups, fallback) ==
    LET groups == IF muscle_groups = << >> THEN <<fallback>> ELSE muscle_groups IN
    SubSeq(groups, 1, IF Len(groups) < 2 THEN Len(groups) ELSE 2)

\* The item is a dict with a name that is a non-blank string.
Usable(item) == item.dict /\ item.name # Null /\ ~Blank(item.name[1])

NormItem(item) ==
    Item(<<Strip(item.name[1])>>,
         SnapOr(allowed_reps, item.reps, 12),
         SnapOr(allowed_sets, item.sets, 3),
         SnapOr(allowed_weight, item.weight_kg, 4))

RECURSIVE NormItems(_)
\* The loop over exercises_raw[:12]: unusable items are skipped.
NormItems(items) ==
    IF items = << >> THEN << >>
    ELSE IF Usable(Head(items)) THEN <<NormItem(Head(items))>> \o NormItems(Tail(items))
    ELSE NormItems(Tail(items))

\* int(x) of a number given in tenths: truncation towards zero.
TruncTenths(v) == IF v >= 0 THEN v \div 10 ELSE -((-v) \div 10)

\* A clamp without the lower bound.
ClampCaloriesNoFloor(c) ==
    IF c.type = "int" THEN [type |-> "int", v |-> IF c.v > max_calories THEN max_calories ELSE c.v]
    ELSE IF c.type \in {"float", "str"}
      THEN LET n == TruncTenths(c.v) IN
           [type |-> "int", v |-> IF n > max_calories THEN max_calories ELSE n]
    ELSE [type |-> "none", v |-> 0]

\* calories_burned: a bool is None, an int is kept, a float and a string that
\* parses are truncated, anything else is None; an int is clamped to
\* [min_calories, max_calories].
ClampCalories(c) ==
    LET Clamp(n) == IF n < min_calories THEN min_calories
                    ELSE IF n > max_calories THEN max_calories ELSE n IN
    IF c.type = "int" THEN [type |-> "int", v |-> Clamp(c.v)]
    ELSE IF c.type \in {"float", "str"}
      THEN [type |-> "int", v |-> Clamp(TruncTenths(c.v))]
    ELSE [type |-> "none", v |-> 0]

\* _normalize_structured_workout(raw, fallback_muscle_group): RuntimeError
\* when exercises is absent or empty, or when no item is usable.
NormalizeStructuredWorkout(raw, fallback) ==
    LET first12 == SubSeq(raw.exercises, 1,
                          IF Len(raw.exercises) < 12 THEN Len(raw.exercises) ELSE 12)
        exercises == NormItems(first12) IN
    IF raw.exercises = << >> \/ exercises = << >>
      THEN [ok |-> FALSE, value |-> Null]
      ELSE [ok |-> TRUE,
            value |-> <<[version |-> NormVersion(raw.version),
                         title |-> NormTitle(raw.title),
                         muscle_groups |-> NormGroups(raw.muscle_groups, fallback),
                         exercises |-> exercises,
                         calories_burned |-> ClampCalories(raw.calories_burned)]>>]

\* dict.get(key) of the normalized result.
GetKey(dict, key) ==
    IF key \in DOMAIN dict THEN dict[key] ELSE [type |-> "none", v |-> 0]

\* if isinstance(calories_raw, int) and calories_raw > 0 (the normalized
\* value is never a float or a string): the calories_burned to store, or None.
PositiveInt(c) == IF c.type = "int" /\ c.v > 0 THEN <<c.v>> ELSE Null

\* create_workout_draft: workout_structured_raw.get("estimated_calories")
CreateDraftCalories(normalized) == PositiveInt(GetKey(normalized, "estimated_calories"))

\* replace_workout_draft: workout_structured_raw.get("calories_burned")
ReplaceDraftCalories(normalized) == PositiveInt(GetKey(normalized, "calories_burned"))

\* finish_trainer_chat: normalized.get("calories_burned")
FinishCalories(normalized) == PositiveInt(GetKey(normalized, "calories_burned"))

InitNormalize ==
    /\ workouts \in RawResults
    /\ resp = NoResp
    /\ nOps = 0
    /\ users = SeedUser
    /\ settings = SeedSettings
    /\ sessions = [i \in SIds |-> AbsentSession]
    /\ messages = [i \in SIds |-> << >>]
    /\ tasks = [s \in Slots |-> IdleTask]

\* The gateway normalizes the parsed answer.
Normalize ==
    /\ resp = NoResp
    /\ LET n == NormalizeStructuredWorkout(workouts, FallbackGroup) IN
       resp' = [pc |-> "normalized", ok |-> n.ok, out |-> n.value,
                again |-> Null, stored |-> Null]
    /\ UNCHANGED <<workouts, sessions, messages, users, settings, tasks, nOps>>

\* The normalized result is normalized again, with the same requested group.
Renormalize ==
    /\ resp # NoResp /\ resp.pc = "normalized" /\ resp.ok
    /\ LET n == NormalizeStructuredWorkout(resp.out[1], FallbackGroup) IN
       resp' = [resp EXCEPT !.pc = "renormalized", !.again = n.value]
    /\ UNCHANGED <<workouts, sessions, messages, users, settings, tasks, nOps>>

\* create_workout_draft builds the row to insert.
CreateDraftStore ==
    /\ resp # NoResp /\ resp.pc = "normalized" /\ resp.ok
    /\ resp' = [resp EXCEPT !.pc = "create_draft",
                            !.stored = CreateDraftCalories(resp.out[1])]
    /\ UNCHANGED <<workouts, sessions, messages, users, settings, tasks, nOps>>

\* replace_workout_draft builds update_data.
ReplaceDraftStore ==
    /\ resp # NoResp /\ resp.pc = "normalized" /\ resp.ok
    /\ resp' = [resp EXCEPT !.pc = "replace_draft",
                            !.stored = ReplaceDraftCalories(resp.out[1])]
    /\ UNCHANGED <<workouts, sessions, messages, users, settings, tasks, nOps>>

\* finish_trainer_chat builds update_payload.
FinishStore ==
    /\ resp # NoResp /\ resp.pc = "normalized" /\ resp.ok
    /\ resp' = [resp EXCEPT !.pc = "finish",
                            !.stored = FinishCalories(resp.out[1])]
    /\ UNCHANGED <<workouts, sessions, messages, users, settings, tasks, nOps>>

NextNormalize ==
    \/ Normalize
    \/ Renormalize
    \/ CreateDraftStore
    \/ ReplaceDraftStore
    \/ FinishStore

SpecNormalize == InitNormalize /\ [][NextNormalize]_vars

\* The normalization has returned a result.
Normalized == resp # NoResp /\ resp.ok

\* The items of the raw result that survive the filters.
Surviving == {i \in 1..Len(workouts.exercises) : Usable(workouts.exercises[i])}

\* C24: the names of the exercises of a normalized result differ pairwise
\* when case is ignored; and a raw result of which no exercise survives the
\* filters is rejected, so no normalized result has an empty exercise list.
C24_UniqueNames ==
    resp # NoResp =>
        /\ resp.ok =>
              LET ex == resp.out[1].exercises IN
              /\ ex # << >>
              /\ \A i, j \in 1..Len(ex) :
                    i # j => Lower(ex[i].name[1]) # Lower(ex[j].name[1])
        /\ Surviving = {} => ~resp.ok

\* C25: normalizing a normalized result again, for the same requested group,
\* succeeds and returns it unchanged: version, title, muscle_groups,
\* exercises and calories_burned.
C25_Idempotent ==
    (resp # NoResp /\ resp.pc = "renormalized") =>
        /\ resp.again # Null
        /\ resp.again[1].version = resp.out[1].version
        /\ resp.again[1].title = resp.out[1].title
        /\ resp.again[1].muscle_groups = resp.out[1].muscle_groups
        /\ resp.again[1].exercises = resp.out[1].exercises
        /\ resp.again[1].calories_burned = resp.out[1].calories_burned

\* A raw result that the normalization changed in every field was normalized
\* twice.
C25_Witness ==
    /\ resp # NoResp /\ resp.pc = "renormalized"
    /\ resp.again = resp.out
    /\ workouts.title # resp.out[1].title
    /\ workouts.version # resp.out[1].version
    /\ workouts.muscle_groups # resp.out[1].muscle_groups
    /\ workouts.exercises # resp.out[1].exercises
    /\ workouts.calories_burned # resp.out[1].calories_burned

\* The integer a raw calories value stands for, if it is numeric.
Numeric(c) == c.type \in {"int", "float", "str"}

C30_DraftKeepsCalories ==
    (Normalized /\ resp.pc = "create_draft") =>
        (resp.stored = Null => resp.out[1].calories_burned.type = "none")

(* ========================= the weekly menu ============================ *)
\* generate_weekly_menu_structured and create_weekly_menu: one completion
\* request for the whole week, then a loop over the seven days.
MaxParsed == 7

\* range(7)
DaysInWeek == 7

\* An entry of the parsed list: a dict _normalize_daily_menu accepts, one it
\* raises on (a target that int() rejects), or a value that is no dict.
DayKinds == {"good", "bad", "nondict"}

\* nutrition_plan.get("target_calories", 2000): the plan's target, if any.
Plans == {Null, <<1800>>}

WeeklyInputs ==
    [parsed : SeqsUpTo(DayKinds, MaxParsed), plan : Plans,
     call : {"list", "error"}]

\* The placeholder of day i: the plan's targets, no sections.
PlaceholderDay(i, plan) ==
    [day_of_week |-> i, content |-> "placeholder",
     target_calories |-> IF plan = Null THEN 2000 ELSE plan[1]]

\* _normalize_daily_menu(parsed[i], nutrition_plan) with day_of_week = i.
GeneratedDay(i) ==
    [day_of_week |-> i, content |-> "generated", target_calories |-> 0]

InitWeekly ==
    /\ workouts \in WeeklyInputs
    /\ resp = NoResp
    /\ nOps = 0
    /\ users = SeedUser
    /\ settings = SeedSettings
    /\ sessions = [i \in SIds |-> AbsentSession]
    /\ messages = [i \in SIds |-> << >>]
    /\ tasks = [s \in Slots |-> IdleTask]

\* generate_weekly_menu_structured: the request raises, or its answer is
\* parsed into a list.
WeeklyRequest ==
    /\ resp = NoResp
    /\ resp' = IF workouts.call = "error"
                 THEN [pc |-> "done", ret |-> "raise", result |-> << >>]
                 ELSE [pc |-> "days", ret |-> "none", result |-> << >>]
    /\ UNCHANGED <<workouts, sessions, messages, users, settings, tasks, nOps>>

\* _normalize_weekly_menu, one turn of its loop: day i is normalized when
\* parsed[i] is a dict, a placeholder when it is missing or no dict; an
\* exception of _normalize_daily_menu leaves the loop and the function.
WeeklyDay ==
    /\ resp # NoResp /\ resp.pc = "days"
    /\ LET i == Len(resp.result)
           parsed == workouts.parsed IN
       resp' = IF i = DaysInWeek
                 THEN [resp EXCEPT !.pc = "store"]
               ELSE IF i < Len(parsed) /\ parsed[i + 1] # "nondict"
                 THEN IF parsed[i + 1] = "bad"
                        THEN [pc |-> "done", ret |-> "raise", result |-> << >>]
                        ELSE [resp EXCEPT !.result = Append(@, GeneratedDay(i))]
               ELSE [resp EXCEPT !.result =
                        Append(@, PlaceholderDay(i, workouts.plan))]
    /\ UNCHANGED <<workouts, sessions, messages, users, settings, tasks, nOps>>

\* create_weekly_menu: every day is inserted; a failed insert is caught and
\* the day is returned all the same.
WeeklyStore ==
    /\ resp # NoResp /\ resp.pc = "store"
    /\ resp' = [resp EXCEPT !.pc = "done", !.ret = "ok"]
    /\ UNCHANGED <<workouts, sessions, messages, users, settings, tasks, nOps>>

NextWeekly ==
    \/ WeeklyRequest
    \/ WeeklyDay
    \/ WeeklyStore

SpecWeekly == InitWeekly /\ [][NextWeekly]_vars

\* C28: a weekly generation whose request was answered returns 7 entries,
\* entry i for day i: the placeholder with the plan's targets for a day that
\* failed or is missing, the generated content for every other day.
C28_SevenDays ==
    (resp # NoResp /\ resp.pc = "done" /\ workouts.call = "list") =>
        /\ resp.ret = "ok"
        /\ Len(resp.result) = 7
        /\ \A i \in 0..6 :
              LET day == resp.result[i + 1]
                  failed == \/ i >= Len(workouts.parsed)
                            \/ workouts.parsed[i + 1] # "good" IN
              /\ day.day_of_week = i
              /\ failed => day = PlaceholderDay(i, workouts.plan)
              /\ ~failed => day.content = "generated"

====
